---- MODULE Spec2Model ----
(***************************************************************************)
(* A model of the copy-on-write B+ tree of src/main.go.                    *)
(*                                                                         *)
(* A node (BNode) is the record of the fields its byte layout holds:       *)
(*   btype, nkeys   the 4-byte header                                      *)
(*   ptr[0..n-1]    the child pointer array                                *)
(*   off[1..n]      the offset array (offset 0 is implicit)                *)
(*   key, val       the klen|vlen|key|val cells of the KV region           *)
(* Byte strings are sequences of bytes; sizes are computed with the        *)
(* source's uint16 arithmetic.  The host (get/new/del callbacks) is the    *)
(* page store `pages`.                                                     *)
(***************************************************************************)
EXTENDS Integers, Sequences, FiniteSets, TLC

VARIABLES
  root,     \* tree.root: page number of the root, 0 for the empty tree
  pages,    \* the host's store: live page number -> node written there
  log,      \* callback and root-assignment events of the last Insert, in order
  status,   \* outcome of the last Insert: "init", "ok", "err" or "panic"
  shadow,   \* history: key -> value of the most recent successful Insert of it
  steps     \* number of Insert calls made

vars == <<root, pages, log, status, shadow, steps>>

-----------------------------------------------------------------------------
(* Program constants *)

BTREE_PAGE_SIZE == 4096
BTREE_MAX_KEY_SIZE == 1000
BTREE_MAX_VAL_SIZE == 3000
HEADER == 4
BNODE_LEAF == 1
BNODE_NODE == 2

(* Model bounds *)
MaxSteps == 3

U16(x) == x % 65536

-----------------------------------------------------------------------------
(* Byte strings *)

\* v bound to a name: Let(e, LAMBDA x : body) is body with x standing for e
Let(v, F(_)) == F(v)

Rep(b, n) == [i \in 1..n |-> b]

Sign(x) == IF x < 0 THEN -1 ELSE IF x > 0 THEN 1 ELSE 0

\* the first index in 1..m at which a and b differ, 0 when there is none
firstDiff(a, b, m) ==
  Let({i \in 1..m : a[i] # b[i]}, LAMBDA d :
    IF d = {} THEN 0 ELSE CHOOSE x \in d : \A y \in d : x <= y)

\* bytes.Compare: unsigned byte-lexicographic order, -1 / 0 / +1
bytesCompare(a, b) ==
  Let(firstDiff(a, b, IF Len(a) < Len(b) THEN Len(a) ELSE Len(b)), LAMBDA i :
    IF i = 0 THEN Sign(Len(a) - Len(b)) ELSE Sign(a[i] - b[i]))

\* bytes.Equal
bytesEqual(a, b) == a = b

-----------------------------------------------------------------------------
(* Page codec *)

btype(node) == node.btype
nkeys(node) == node.nkeys

\* make() followed by setHeader: a zeroed buffer with its header set
setHeader(kind, n) ==
  [btype |-> kind, nkeys |-> n,
   ptr |-> [i \in 0..(n - 1) |-> 0],
   off |-> [i \in 1..n |-> 0],
   key |-> [i \in 0..(n - 1) |-> <<>>],
   val |-> [i \in 0..(n - 1) |-> <<>>]]

getPtr(node, idx) == node.ptr[idx]

setPtr(node, idx, v) == [node EXCEPT !.ptr[idx] = v]

getOffset(node, idx) == IF idx = 0 THEN 0 ELSE node.off[idx]

setOffset(node, idx, v) == [node EXCEPT !.off[idx] = v]

kvPos(node, idx) ==
  U16(4 + 8 * nkeys(node) + 2 * nkeys(node) + getOffset(node, idx))

getKey(node, idx) == node.key[idx]

getVal(node, idx) == node.val[idx]

nbytes(node) == kvPos(node, nkeys(node))

\* the klen | vlen | key | val cell written at kvPos(idx)
putKV(node, idx, key, val) ==
  [node EXCEPT !.key[idx] = key, !.val[idx] = val]

-----------------------------------------------------------------------------
(* Node builder *)

\* nodeAppendKV without its setPtr
nodeAppendKVNoPtr(new, idx, p, key, val) ==
  Let(putKV(new, idx, key, val), LAMBDA n :
    setOffset(n, idx + 1,
              U16(getOffset(n, idx) + 4 + U16(Len(key) + Len(val)))))

nodeAppendKV(new, idx, p, key, val) ==
  Let(putKV(setPtr(new, idx, p), idx, key, val), LAMBDA n :
    setOffset(n, idx + 1,
              U16(getOffset(n, idx) + 4 + U16(Len(key) + Len(val)))))

RECURSIVE nodeAppendRangeFrom(_, _, _, _, _, _)
nodeAppendRangeFrom(new, old, dstNew, srcOld, n, i) ==
  IF i >= n THEN new
  ELSE nodeAppendRangeFrom(
         nodeAppendKV(new, dstNew + i, getPtr(old, srcOld + i),
                      getKey(old, srcOld + i), getVal(old, srcOld + i)),
         old, dstNew, srcOld, n, i + 1)

\* copy multiple keys, values, and pointers into the position
nodeAppendRange(new, old, dstNew, srcOld, n) ==
  nodeAppendRangeFrom(new, old, dstNew, srcOld, n, 0)

\* leafInsert that puts the new key one position too early
leafInsertOffByOne(old, idx, key, val) ==
  nodeAppendRange(
    nodeAppendKV(
      nodeAppendRange(setHeader(BNODE_LEAF, nkeys(old) + 1), old, 0, 0, idx - 1),
      idx - 1, 0, key, val),
    old, idx, idx - 1, nkeys(old) - (idx - 1))

leafInsert(old, idx, key, val) ==
  nodeAppendRange(
    nodeAppendKV(
      nodeAppendRange(setHeader(BNODE_LEAF, nkeys(old) + 1), old, 0, 0, idx),
      idx, 0, key, val),
    old, idx + 1, idx, nkeys(old) - idx)

leafUpdate(old, idx, key, val) ==
  nodeAppendRange(
    nodeAppendKV(
      nodeAppendRange(setHeader(BNODE_LEAF, nkeys(old)), old, 0, 0, idx),
      idx, 0, key, val),
    old, idx + 1, idx + 1, nkeys(old) - (idx + 1))

\* find the last position that is less than or equal to the key
RECURSIVE nodeLookupLEFrom(_, _, _)
nodeLookupLEFrom(node, key, i) ==
  IF i >= nkeys(node) THEN U16(i - 1)
  ELSE Let(bytesCompare(getKey(node, i), key), LAMBDA cmp :
         IF cmp = 0 THEN i
         ELSE IF cmp > 0 THEN U16(i - 1)
         ELSE nodeLookupLEFrom(node, key, i + 1))

nodeLookupLE(node, key) == nodeLookupLEFrom(node, key, 0)

-----------------------------------------------------------------------------
(* Node splitting.  A failed assert is reported in the field ok. *)

left_bytes(old, nleft) ==
  U16(4 + 8 * nleft + 2 * nleft + getOffset(old, nleft))

right_bytes(old, nleft) ==
  U16(nbytes(old) - left_bytes(old, nleft) + 4)

\* for left_bytes() > BTREE_PAGE_SIZE { nleft-- }
RECURSIVE fitLeft(_, _)
fitLeft(old, nleft) ==
  IF left_bytes(old, nleft) > BTREE_PAGE_SIZE
    THEN fitLeft(old, U16(nleft - 1))
    ELSE nleft

\* nodeSplit2 without the loop that moves entries to the left node
fitRightSkipped(old, nleft) == nleft

\* for right_bytes() > BTREE_PAGE_SIZE { nleft++ }
RECURSIVE fitRight(_, _)
fitRight(old, nleft) ==
  IF right_bytes(old, nleft) > BTREE_PAGE_SIZE
    THEN fitRight(old, U16(nleft + 1))
    ELSE nleft

Split2(ok, left, right) == [ok |-> ok, left |-> left, right |-> right]

\* the right node copies from entry 0 instead of entry nleft
splitAtRightFromStart(old, nleft) ==
  Let(nodeAppendRange(setHeader(btype(old), nkeys(old) - nleft), old, 0,
                      0, nkeys(old) - nleft),
      LAMBDA right :
        Split2(nbytes(right) <= BTREE_PAGE_SIZE,
               nodeAppendRange(setHeader(btype(old), nleft), old, 0, 0, nleft),
               right))

\* the new nodes of nodeSplit2, the left one taking nleft entries
splitAt(old, nleft) ==
  Let(nodeAppendRange(setHeader(btype(old), nkeys(old) - nleft), old, 0,
                      nleft, nkeys(old) - nleft),
      LAMBDA right :
        Split2(nbytes(right) <= BTREE_PAGE_SIZE,
               nodeAppendRange(setHeader(btype(old), nleft), old, 0, 0, nleft),
               right))

\* Split an oversized node into 2 nodes. The 2nd node always fits.
nodeSplit2(old) ==
  IF nkeys(old) < 2 THEN Split2(FALSE, old, old)
  ELSE Let(fitLeft(old, nkeys(old) \div 2), LAMBDA n1 :
    IF n1 < 1 THEN Split2(FALSE, old, old)
    ELSE Let(fitRight(old, n1), LAMBDA nleft :
      IF nleft < nkeys(old) THEN splitAt(old, nleft)
      ELSE Split2(FALSE, old, old)))

Split3(ok, split) == [ok |-> ok, split |-> split]

\* nodeSplit3 that never splits
nodeSplit3Never(old) == Split3(TRUE, <<old>>)

\* nodeSplit3 that does not split the left node again
nodeSplit3Once(old) ==
  IF nbytes(old) <= BTREE_PAGE_SIZE THEN Split3(TRUE, <<old>>)
  ELSE Let(nodeSplit2(old), LAMBDA s1 :
    Split3(s1.ok, <<s1.left, s1.right>>))

\* split a node if it's too big. the results are 1-3 nodes.
nodeSplit3(old) ==
  IF nbytes(old) <= BTREE_PAGE_SIZE THEN Split3(TRUE, <<old>>)
  ELSE Let(nodeSplit2(old), LAMBDA s1 :
    IF ~s1.ok THEN Split3(FALSE, <<>>)
    ELSE IF nbytes(s1.left) <= BTREE_PAGE_SIZE
      THEN Split3(TRUE, <<s1.left, s1.right>>)
    ELSE Let(nodeSplit2(s1.left), LAMBDA s2 :
      IF ~s2.ok THEN Split3(FALSE, <<>>)
      ELSE Split3(nbytes(s2.left) <= BTREE_PAGE_SIZE,
                  <<s2.left, s2.right, s1.right>>)))

-----------------------------------------------------------------------------
(* The host: page store and callbacks.  A host state h holds tree.root,   *)
(* the live pages, the pages freed during the running Insert, the event   *)
(* log, whether the running Insert has panicked, the number of callbacks  *)
(* made so far and, in failAt, which callback of the running Insert the   *)
(* host fails (0: none).  A panic unwinds the Insert: once h.panic holds, *)
(* no later statement has an effect.                                      *)

Event(op, p, live, size) == [op |-> op, page |-> p, live |-> live, size |-> size]

\* the page number the host's allocator hands out next: the lowest nonzero
\* number that is neither live nor freed during the running Insert
lowestFree(used) ==
  CHOOSE p \in 1..(Cardinality(used) + 1) :
    p \notin used /\ \A q \in 1..(p - 1) : q \in used

freshPage(h) == lowestFree(DOMAIN h.pages \cup h.freed)

hostPanic(h) == [h EXCEPT !.panic = TRUE]

\* the callback about to be made is the one the host fails
faulty(h) == h.failAt # 0 /\ h.calls + 1 = h.failAt

\* the host stores node under page number p
storePage(h, p, node) ==
  [h EXCEPT !.pages = (p :> node) @@ h.pages,
            !.calls = h.calls + 1,
            !.log = Append(h.log, Event("new", p, FALSE, nbytes(node)))]

\* tree.new(node)
hostNew(h, node) ==
  IF h.panic THEN h
  ELSE IF faulty(h) THEN hostPanic(h)
  ELSE storePage(h, freshPage(h), node)

\* the page number returned by the last tree.new
lastNew(h) == IF h.log = <<>> THEN 0 ELSE h.log[Len(h.log)].page

\* tree.get(p): reading a page that is not live is a host fault
hostGet(h, p) ==
  IF h.panic THEN h
  ELSE IF faulty(h) THEN hostPanic(h)
  ELSE [h EXCEPT !.log = Append(h.log, Event("get", p, p \in DOMAIN h.pages, 0)),
                 !.calls = h.calls + 1,
                 !.panic = p \notin DOMAIN h.pages]

\* tree.del(p)
hostDel(h, p) ==
  IF h.panic THEN h
  ELSE IF faulty(h) THEN hostPanic(h)
  ELSE [h EXCEPT !.pages = [q \in DOMAIN h.pages \ {p} |-> h.pages[q]],
                 !.freed = h.freed \cup {p},
                 !.calls = h.calls + 1,
                 !.log = Append(h.log, Event("del", p, p \in DOMAIN h.pages, 0))]

\* tree.root = p
setRoot(h, p) ==
  IF h.panic THEN h
  ELSE [h EXCEPT !.root = p,
                 !.log = Append(h.log, Event("root", p, p \in DOMAIN h.pages, 0))]

\* the log entry of one call nodeSplit3(node): the node handed in, the
\* number of parts returned and whether every assertion held
noteSplit(h, node, sp) ==
  IF h.panic THEN h
  ELSE [h EXCEPT !.log = Append(h.log,
          [op |-> "split", page |-> Len(sp.split), live |-> sp.ok,
           size |-> nbytes(node), node |-> node])]

-----------------------------------------------------------------------------
(* Tree engine.  The operators that call the host return the host state   *)
(* and the node built.                                                    *)

Built(h, node) == [h |-> h, node |-> node]

\* the link takes the kid's last key instead of its first
appendKidLastKey(h1, new, idx, kid) ==
  Built(h1, nodeAppendKV(new, idx, lastNew(h1),
                         getKey(kid, nkeys(kid) - 1), <<>>))

\* ptr := tree.new(kid); nodeAppendKV(new, idx, ptr, kid.getKey(0), nil)
appendKid(h1, new, idx, kid) ==
  Built(h1, nodeAppendKV(new, idx, lastNew(h1), getKey(kid, 0), <<>>))

\* the loop over the kids: allocate each and append its link
RECURSIVE appendKids(_, _, _, _)
appendKids(b, idx, kids, i) ==
  IF i > Len(kids) THEN b
  ELSE appendKids(appendKid(hostNew(b.h, kids[i]), b.node, idx + (i - 1), kids[i]),
                  idx, kids, i + 1)

\* replace a link with multiple links
nodeReplaceKidN(h, old, idx, kids) ==
  Let(appendKids(
        Built(h, nodeAppendRange(
                   setHeader(BNODE_NODE, U16(nkeys(old) + Len(kids) - 1)),
                   old, 0, 0, idx)),
        idx, kids, 1),
      LAMBDA b :
        Built(b.h, nodeAppendRange(b.node, old, idx + Len(kids), idx + 1,
                                   nkeys(old) - (idx + 1))))

RECURSIVE treeInsert(_, _, _, _)
treeInsert(h, node, key, val) ==
  Let(nodeLookupLE(node, key), LAMBDA idx :
    IF h.panic THEN Built(h, node)
    ELSE IF btype(node) = BNODE_LEAF THEN
      IF ~(idx < nkeys(node)) THEN Built(hostPanic(h), node)
      ELSE IF bytesEqual(key, getKey(node, idx))
        THEN Built(h, leafUpdate(node, idx, key, val))
        ELSE Built(h, leafInsert(node, idx + 1, key, val))
    ELSE IF btype(node) = BNODE_NODE THEN
      IF ~(idx < nkeys(node)) THEN Built(hostPanic(h), node)
      ELSE Let(hostGet(h, getPtr(node, idx)), LAMBDA h1 :
        IF h1.panic THEN Built(h1, node)
        ELSE Let(treeInsert(h1, h1.pages[getPtr(node, idx)], key, val), LAMBDA r :
          IF r.h.panic THEN r
          ELSE Let(nodeSplit3(r.node), LAMBDA sp :
            IF ~sp.ok THEN Built(hostPanic(noteSplit(r.h, r.node, sp)), node)
            ELSE nodeReplaceKidN(
                   hostDel(noteSplit(r.h, r.node, sp), getPtr(node, idx)),
                   node, idx, sp.split))))
    ELSE Built(hostPanic(h), node))

\* the result of shouldMerge: the direction (-1 left, +1 right, 0 none) and
\* the sibling chosen
Merge(dir, sibling) == [dir |-> dir, sibling |-> sibling]

\* BNode{}
NoNode == setHeader(0, 0)

\* merged := sibling.nbytes() + updated.nbytes() - HEADER
mergedBytes(sibling, updated) == U16(nbytes(sibling) + nbytes(updated) - HEADER)

\* shouldMerge without the test of the quarter page
shouldMergeNoQuarter(tree, node, idx, updated) ==
  IF idx > 0
     /\ mergedBytes(tree.pages[getPtr(node, idx - 1)], updated) <= BTREE_PAGE_SIZE
    THEN Merge(-1, tree.pages[getPtr(node, idx - 1)])
  ELSE IF U16(idx + 1) < nkeys(node)
     /\ mergedBytes(tree.pages[getPtr(node, idx + 1)], updated) <= BTREE_PAGE_SIZE
    THEN Merge(1, tree.pages[getPtr(node, idx + 1)])
  ELSE Merge(0, NoNode)

\* should the updated kid be merged with a sibling?  (the unnamed uint16
\* parameter of the source is the idx its body reads)
shouldMerge(tree, node, idx, updated) ==
  IF nbytes(updated) > BTREE_PAGE_SIZE \div 4 THEN Merge(0, NoNode)
  ELSE IF idx > 0
     /\ mergedBytes(tree.pages[getPtr(node, idx - 1)], updated) <= BTREE_PAGE_SIZE
    THEN Merge(-1, tree.pages[getPtr(node, idx - 1)])
  ELSE IF U16(idx + 1) < nkeys(node)
     /\ mergedBytes(tree.pages[getPtr(node, idx + 1)], updated) <= BTREE_PAGE_SIZE
    THEN Merge(1, tree.pages[getPtr(node, idx + 1)])
  ELSE Merge(0, NoNode)

checkLimit(key, val) ==
  Len(key) <= BTREE_MAX_KEY_SIZE /\ Len(val) <= BTREE_MAX_VAL_SIZE

Result(h, err) == [h |-> h, err |-> err]

\* tree.root = tree.new(root)
installRoot(h1) == setRoot(h1, lastNew(h1))

\* 2. create the first node
insertFirst(h, key, val) ==
  installRoot(hostNew(h,
    nodeAppendKV(nodeAppendKV(setHeader(BNODE_LEAF, 2), 0, 0, <<>>, <<>>),
                 1, 0, key, val)))

\* Insert that installs the first part as the root and adds no level
insertRootFirstPart(h, split) == installRoot(hostNew(h, split[1]))

\* Insert that adds a level whether or not the root was split
insertRootAlwaysGrow(h, split) ==
  Let(appendKids(Built(h, setHeader(BNODE_NODE, Len(split))), 0, split, 1),
      LAMBDA b : installRoot(hostNew(b.h, b.node)))

\* 4. grow the tree if the root is split
insertRoot(h, split) ==
  IF Len(split) > 1
    THEN Let(appendKids(Built(h, setHeader(BNODE_NODE, Len(split))), 0, split, 1),
             LAMBDA b : installRoot(hostNew(b.h, b.node)))
    ELSE installRoot(hostNew(h, split[1]))

\* Insert that does not free the old root
insertKeyKeepOldRoot(h, key, val) ==
  Let(hostGet(h, h.root), LAMBDA h0 :
    IF h0.panic THEN h0
    ELSE Let(treeInsert(h0, h0.pages[h.root], key, val), LAMBDA r :
      IF r.h.panic THEN r.h
      ELSE Let(nodeSplit3(r.node), LAMBDA sp :
        IF ~sp.ok THEN hostPanic(noteSplit(r.h, r.node, sp))
        ELSE insertRoot(noteSplit(r.h, r.node, sp), sp.split))))

\* Insert that clears tree.root when it frees the old root
insertKeyClearsRoot(h, key, val) ==
  Let(hostGet(h, h.root), LAMBDA h0 :
    IF h0.panic THEN h0
    ELSE Let(treeInsert(h0, h0.pages[h.root], key, val), LAMBDA r :
      IF r.h.panic THEN r.h
      ELSE Let(nodeSplit3(r.node), LAMBDA sp :
        IF ~sp.ok THEN hostPanic(noteSplit(r.h, r.node, sp))
        ELSE insertRoot(
               setRoot(hostDel(noteSplit(r.h, r.node, sp), h.root), 0),
               sp.split))))

\* Insert that frees the old root before it fetches it
insertKeyFreeFirst(h, key, val) ==
  Let(hostGet(hostDel(h, h.root), h.root), LAMBDA h0 :
    IF h0.panic THEN h0
    ELSE Let(treeInsert(h0, h0.pages[h.root], key, val), LAMBDA r :
      IF r.h.panic THEN r.h
      ELSE Let(nodeSplit3(r.node), LAMBDA sp :
        IF ~sp.ok THEN hostPanic(noteSplit(r.h, r.node, sp))
        ELSE insertRoot(noteSplit(r.h, r.node, sp), sp.split))))

\* 3. insert the key, then split the node built and replace the root
insertKey(h, key, val) ==
  Let(hostGet(h, h.root), LAMBDA h0 :
    IF h0.panic THEN h0
    ELSE Let(treeInsert(h0, h0.pages[h.root], key, val), LAMBDA r :
      IF r.h.panic THEN r.h
      ELSE Let(nodeSplit3(r.node), LAMBDA sp :
        IF ~sp.ok THEN hostPanic(noteSplit(r.h, r.node, sp))
        ELSE insertRoot(hostDel(noteSplit(r.h, r.node, sp), h.root),
                        sp.split))))

\* Insert without step 1, the check of the length limit
BTreeInsertUnchecked(h, key, val) ==
  IF h.root = 0 THEN Result(insertFirst(h, key, val), FALSE)
  ELSE Result(insertKey(h, key, val), FALSE)

\* BTree.Insert run on the host state h; the field err tells whether
\* checkLimit rejected the call
BTreeInsert(h, key, val) ==
  IF ~checkLimit(key, val) THEN Result(h, TRUE)
  ELSE IF h.root = 0 THEN Result(insertFirst(h, key, val), FALSE)
  ELSE Result(insertKey(h, key, val), FALSE)

-----------------------------------------------------------------------------
(* Inputs *)

\* a key of n bytes whose first byte is b
LongKey(b, n) == <<b>> \o Rep(0, n - 1)

L(b) == LongKey(b, BTREE_MAX_KEY_SIZE)

EmptyVal == <<>>
MedVal == Rep(7, BTREE_MAX_KEY_SIZE)
BigVal == Rep(9, BTREE_MAX_VAL_SIZE)

OverKey == LongKey(1, BTREE_MAX_KEY_SIZE + 1)
OverVal == Rep(9, BTREE_MAX_VAL_SIZE + 1)

Keys == {<<>>, <<1>>, L(5), L(6), L(7)}
Vals == {EmptyVal, MedVal, BigVal}

Inputs ==
  (Keys \X Vals) \cup {<<OverKey, EmptyVal>>, <<<<1>>, OverVal>>}

\* the Inserts a client makes to load an empty tree: five entries that end
\* up in five leaves under one root
\* the Inserts during which a callback of the host may fail
FaultInputs == {<<L(6), BigVal>>}

LoadInputs ==
  <<<<L(1), BigVal>>, <<L(2), BigVal>>, <<L(3), BigVal>>, <<L(4), BigVal>>,
    <<L(5), MedVal>>>>

-----------------------------------------------------------------------------
(* Specification *)

\* the program state as a record, and one call of Insert on it
State(r, p, l, st, sh) ==
  [root |-> r, pages |-> p, log |-> l, status |-> st, shadow |-> sh]

\* the host state at the start of a call during which the host fails
\* callback number n (0: none)
HostFailing(s, n) ==
  [root |-> s.root, pages |-> s.pages, freed |-> {}, log |-> <<>>,
   panic |-> FALSE, calls |-> 0, failAt |-> n]

\* the host state at the start of a call
Host(s) == HostFailing(s, 0)

\* the history after a successful Insert(key, val)
Remember(sh, key, val) ==
  [k \in DOMAIN sh \cup {key} |-> IF k = key THEN val ELSE sh[k]]

\* the program state after the call that ended as r tells
Outcome(s, r, key, val) ==
  State(r.h.root, r.h.pages, r.h.log,
        IF r.err THEN "err" ELSE IF r.h.panic THEN "panic" ELSE "ok",
        IF r.err \/ r.h.panic THEN s.shadow
        ELSE Remember(s.shadow, key, val))

Call(s, key, val) == Outcome(s, BTreeInsert(Host(s), key, val), key, val)

\* the call during which the host fails callback number n
CallFailing(s, key, val, n) ==
  Outcome(s, BTreeInsert(HostFailing(s, n), key, val), key, val)

\* the number of callbacks made during the call that led to s
callsOf(s) ==
  Cardinality({i \in DOMAIN s.log : s.log[i].op \in {"get", "new", "del"}})

RECURSIVE CallAll(_, _, _)
CallAll(s, inputs, i) ==
  IF i > Len(inputs) \/ s.status = "panic" THEN s
  ELSE CallAll(Call(s, inputs[i][1], inputs[i][2]), inputs, i + 1)

Current == State(root, pages, log, status, shadow)

Becomes(s) ==
  /\ root' = s.root
  /\ pages' = s.pages
  /\ log' = s.log
  /\ status' = s.status
  /\ shadow' = s.shadow

Init ==
  /\ root = 0
  /\ pages = <<>>
  /\ log = <<>>
  /\ status = "init"
  /\ shadow = <<>>
  /\ steps = 0

\* one call tree.Insert(key, val)
Insert(key, val) ==
  /\ status # "panic"
  /\ steps < MaxSteps
  /\ Becomes(Call(Current, key, val))
  /\ steps' = steps + 1

\* one call tree.Insert(key, val) during which one of the callbacks it makes
\* fails: the panic ends the program
InsertFault(key, val) ==
  /\ status # "panic"
  /\ steps < MaxSteps
  /\ \E n \in 1..callsOf(Call(Current, key, val)) :
       Becomes(CallFailing(Current, key, val, n))
  /\ steps' = steps + 1

\* a client loads the empty tree with the Inserts of LoadInputs
Load ==
  /\ root = 0
  /\ steps = 0
  /\ Becomes(CallAll(Current, LoadInputs, 1))
  /\ steps' = steps + 1

Next ==
  \/ \E in \in Inputs : Insert(in[1], in[2])
  \/ \E in \in FaultInputs : InsertFault(in[1], in[2])
  \/ Load

Spec == Init /\ [][Next]_vars

-----------------------------------------------------------------------------
(* Reading the tree *)

Live == DOMAIN pages

\* the child page numbers an INNER node names
Kids(node) ==
  IF btype(node) = BNODE_NODE
    THEN {getPtr(node, i) : i \in 0..(nkeys(node) - 1)}
    ELSE {}

RECURSIVE ReachFrom(_)
ReachFrom(S) ==
  Let(S \cup UNION {Kids(pages[p]) : p \in S \cap Live}, LAMBDA T :
    IF T = S THEN S ELSE ReachFrom(T))

\* the page numbers reachable from tree.root through INNER pointers
Reachable == IF root = 0 THEN {} ELSE ReachFrom({root})

\* the nodes of the tree
Nodes == {pages[p] : p \in Reachable \cap Live}

Found(v) == [found |-> TRUE, val |-> v]
NotFound == [found |-> FALSE, val |-> <<>>]

\* Get: descend with nodeLookupLE, compare the key of the leaf entry reached
RECURSIVE treeGet(_, _)
treeGet(node, key) ==
  Let(nodeLookupLE(node, key), LAMBDA idx :
    IF ~(idx < nkeys(node)) THEN NotFound
    ELSE IF btype(node) = BNODE_LEAF
      THEN IF bytesEqual(key, getKey(node, idx))
             THEN Found(getVal(node, idx)) ELSE NotFound
    ELSE IF getPtr(node, idx) \in Live
      THEN treeGet(pages[getPtr(node, idx)], key)
    ELSE NotFound)

Get(key) == IF root \in Live THEN treeGet(pages[root], key) ELSE NotFound

\* the pages on the leftmost path: the root, then child 0 of each INNER node
RECURSIVE LeftmostFrom(_)
LeftmostFrom(p) ==
  IF p \notin Live THEN {}
  ELSE IF btype(pages[p]) = BNODE_NODE /\ nkeys(pages[p]) > 0
    THEN {p} \cup LeftmostFrom(getPtr(pages[p], 0))
  ELSE {p}

LeftmostPath == IF root = 0 THEN {} ELSE LeftmostFrom(root)

\* the leftmost leaf of a non-empty tree
LeftmostLeaves == {pages[p] : p \in {q \in LeftmostPath : btype(pages[q]) = BNODE_LEAF}}

Leaves == {n \in Nodes : btype(n) = BNODE_LEAF}
Inners == {n \in Nodes : btype(n) = BNODE_NODE}

\* the positions of the events of one kind in the log of the last Insert
EventsOf(op) == {i \in DOMAIN log : log[i].op = op}

Completed == status \in {"ok", "err"}

-----------------------------------------------------------------------------
(* Claims *)

\* No Insert panics (no assert fails, no freed page is read).
NoPanic == status # "panic"

\* C1: every key inserted is found by Get with the value of its most recent
\* Insert.
C1_RoundTrip ==
  Completed => \A k \in DOMAIN shadow : Get(k) = Found(shadow[k])

\* (the same for the keys that are not empty)
C1_RoundTripNonEmptyKeys ==
  Completed => \A k \in DOMAIN shadow \ {<<>>} : Get(k) = Found(shadow[k])

Oversize(in) ==
  Len(in[1]) > BTREE_MAX_KEY_SIZE \/ Len(in[2]) > BTREE_MAX_VAL_SIZE

\* C2: an Insert with an oversize key or value returns the error, calls no
\* host callback and leaves tree.root and every stored page as they were.
C2_OversizeRejected ==
  [][\A in \in {x \in Inputs : Oversize(x)} :
       Insert(in[1], in[2]) =>
         status' = "err" /\ log' = <<>> /\ root' = root /\ pages' = pages]_vars

\* an oversize Insert was made on a tree that is not empty
C2_Witness == status = "err" /\ root # 0 /\ Live # {}

\* C3: every buffer handed to the allocate callback, and so every stored
\* page, has nbytes <= BTREE_PAGE_SIZE.
C3_Size ==
  /\ \A i \in EventsOf("new") : log[i].size <= BTREE_PAGE_SIZE
  /\ \A p \in Live : nbytes(pages[p]) <= BTREE_PAGE_SIZE

\* the last Insert split a node three ways under an INNER parent that it
\* rebuilt (three parts, the parent's parts, the root)
C3_Witness ==
  /\ status = "ok"
  /\ Cardinality(EventsOf("new")) >= 6
  /\ Cardinality(EventsOf("del")) = 2

\* C4: in every node of the tree the keys from index 1 on are strictly
\* ascending in byte-lexicographic order.
C4_Ordering ==
  \A n \in Nodes : \A i, j \in 1..(nkeys(n) - 1) :
    i < j => bytesCompare(getKey(n, i), getKey(n, j)) < 0

\* a leaf with two keys after entry 0 and an INNER node with four keys after
\* entry 0
C4_Witness ==
  /\ status = "ok"
  /\ \E n \in Leaves : nkeys(n) >= 3
  /\ \E n \in Inners : nkeys(n) >= 5

\* the page numbers of the events of one kind in the log of the last Insert
PagesOf(op) == {log[i].page : i \in EventsOf(op)}

\* C5: after every completed Insert the live pages are exactly the pages
\* reachable from tree.root, and the Insert freed exactly the pages of the
\* old path it fetched, each of them live when freed.
C5_PageAccounting ==
  Completed =>
    /\ Live = Reachable
    /\ PagesOf("del") = PagesOf("get")
    /\ \A i \in EventsOf("del") : log[i].live

\* the last Insert replaced a path of three pages of a tree of three levels
C5_Witness ==
  /\ status = "ok"
  /\ Cardinality(EventsOf("del")) = 3
  /\ Cardinality(Live) >= 8

\* C6: within one Insert no page is freed before tree.root has been assigned
\* the new root.
C6_FreeAfterInstall ==
  \A i \in EventsOf("del") : \E j \in EventsOf("root") : j < i

\* C7: entry 0 of the leftmost leaf has an empty key and an empty value.
C7_LeafSentinel ==
  Completed =>
    \A n \in LeftmostLeaves : getKey(n, 0) = <<>> /\ getVal(n, 0) = <<>>

\* C8 as claimed: every INNER node of the tree has an empty key at entry 0.
C8_EveryInnerSentinel == \A n \in Inners : getKey(n, 0) = <<>>

\* C8 as amended: every INNER node on the leftmost path from the root has an
\* empty key at entry 0.
C8_LeftmostInnerSentinel ==
  \A p \in LeftmostPath :
    btype(pages[p]) = BNODE_NODE => getKey(pages[p], 0) = <<>>

\* a tree of three levels: the root and its child 0 are INNER nodes
C8_Witness ==
  /\ root \in Live
  /\ btype(pages[root]) = BNODE_NODE
  /\ getPtr(pages[root], 0) \in Live
  /\ btype(pages[getPtr(pages[root], 0)]) = BNODE_NODE

\* C9 as claimed: every node but the root has at least 2 entries.
C9_MinFanout ==
  \A p \in (Reachable \cap Live) \ {root} : nkeys(pages[p]) >= 2

\* C9 as amended: every INNER node has at least 2 entries and every LEAF at
\* least 1.
C9_MinEntries ==
  /\ \A n \in Inners : nkeys(n) >= 2
  /\ \A n \in Leaves : nkeys(n) >= 1

\* a split left a leaf with one entry, and an INNER node that is not the root
\* exists
C9_Witness ==
  /\ \E n \in Leaves : nkeys(n) = 1
  /\ \E p \in (Reachable \cap Live) \ {root} : btype(pages[p]) = BNODE_NODE

\* C10: every node is a LEAF or an INNER node; every entry of a LEAF has
\* pointer 0 and every entry of an INNER node a nonzero pointer.
C10_KindDiscipline ==
  \A n \in Nodes :
    /\ btype(n) \in {BNODE_LEAF, BNODE_NODE}
    /\ \A i \in 0..(nkeys(n) - 1) :
         IF btype(n) = BNODE_LEAF THEN getPtr(n, i) = 0 ELSE getPtr(n, i) # 0

\* a leaf rebuilt by leafUpdate or leafInsert under an INNER node rebuilt by
\* nodeReplaceKidN with a split child
C10_Witness ==
  /\ status = "ok"
  /\ \E n \in Inners : nkeys(n) >= 3
  /\ \E n \in Leaves : nkeys(n) >= 3
  /\ Cardinality(EventsOf("new")) >= 3

-----------------------------------------------------------------------------
(* Reading the tree of a program state given as a record *)

\* the entries of a node in index order, as <<key, val>> pairs
entriesOf(node) ==
  [i \in 1..nkeys(node) |-> <<getKey(node, i - 1), getVal(node, i - 1)>>]

\* in-order scan of the leaf entries under page p
RECURSIVE scanFrom(_, _)
RECURSIVE scanKids(_, _, _)
scanKids(pgs, node, i) ==
  IF i >= nkeys(node) THEN <<>>
  ELSE scanFrom(pgs, getPtr(node, i)) \o scanKids(pgs, node, i + 1)

scanFrom(pgs, p) ==
  IF p \notin DOMAIN pgs THEN <<>>
  ELSE IF btype(pgs[p]) = BNODE_LEAF THEN entriesOf(pgs[p])
  ELSE scanKids(pgs, pgs[p], 0)

Scan(s) == IF s.root = 0 THEN <<>> ELSE scanFrom(s.pages, s.root)

\* Get on the tree of the state s
RECURSIVE getFrom(_, _, _)
getFrom(pgs, p, key) ==
  IF p \notin DOMAIN pgs THEN NotFound
  ELSE Let(nodeLookupLE(pgs[p], key), LAMBDA idx :
    IF ~(idx < nkeys(pgs[p])) THEN NotFound
    ELSE IF btype(pgs[p]) = BNODE_LEAF
      THEN IF bytesEqual(key, getKey(pgs[p], idx))
             THEN Found(getVal(pgs[p], idx)) ELSE NotFound
    ELSE getFrom(pgs, getPtr(pgs[p], idx), key))

GetIn(s, key) == getFrom(s.pages, s.root, key)

\* Get and the scan tell the trees of s1 and s2 apart
SameContent(s1, s2) ==
  /\ Scan(s1) = Scan(s2)
  /\ \A k \in Keys : GetIn(s1, k) = GetIn(s2, k)

\* Insert(key, val) made twice leaves what Insert(key, val) made once leaves
Idempotent(s, key, val) ==
  Let(Call(s, key, val), LAMBDA s1 :
    SameContent(s1, Call(s1, key, val)))

\* C11: on every reachable tree, for every key and value within the limits,
\* the tree after Insert(k, v); Insert(k, v) shows the same keys, values and
\* number of entries through Get and the in-order scan of the leaves as the
\* tree after one Insert(k, v).
C11_OverwriteIdempotent ==
  status # "panic" =>
    \A in \in Keys \X Vals : Idempotent(Current, in[1], in[2])

\* (the same for the keys that are not empty)
C11_OverwriteIdempotentNonEmptyKeys ==
  status # "panic" =>
    \A in \in (Keys \ {<<>>}) \X Vals : Idempotent(Current, in[1], in[2])

\* C12: during one Insert no page number is freed twice, and every page
\* passed to the fetch or the free callback is live at the moment of the
\* call.
C12_CallbackDiscipline ==
  /\ \A i \in EventsOf("get") \cup EventsOf("del") : log[i].live
  /\ \A i, j \in EventsOf("del") : log[i].page = log[j].page => i = j

\* an Insert that fetched and freed the three pages of a root-to-leaf path
C12_Witness ==
  /\ status = "ok"
  /\ Cardinality(EventsOf("get")) >= 3
  /\ Cardinality(EventsOf("del")) >= 3

\* C13: an Insert that panics, because an assertion fails or a host callback
\* fails, leaves tree.root as it was before the call.
C13_AbortKeepsRoot == [][status' = "panic" => root' = root]_vars

\* a callback failed after the Insert had freed and allocated pages of a
\* tree that is not empty
C13_Witness ==
  /\ status = "panic"
  /\ root # 0
  /\ EventsOf("del") # {}
  /\ EventsOf("new") # {}

-----------------------------------------------------------------------------
(* The calls of nodeSplit3 in the log of the last Insert *)

\* the position in the log of the k-th allocation made after position i
nthNewAfter(i, k) ==
  CHOOSE j \in {x \in EventsOf("new") : x > i} :
    Cardinality({x \in EventsOf("new") : i < x /\ x <= j}) = k

\* part k of the split logged at position i, as the page stored for it
partOf(i, k) == pages[log[nthNewAfter(i, k)].page]

\* the entries of a node in index order, as <<ptr, key, val>> triples
triplesOf(node) ==
  [j \in 1..nkeys(node) |->
     <<getPtr(node, j - 1), getKey(node, j - 1), getVal(node, j - 1)>>]

\* the entries of parts 1..k of the split logged at position i
RECURSIVE partTriples(_, _)
partTriples(i, k) ==
  IF k = 0 THEN <<>> ELSE partTriples(i, k - 1) \o triplesOf(partOf(i, k))

\* the size of a node counted in unbounded integers: header, pointers,
\* offsets and cells
RECURSIVE cellBytes(_, _)
cellBytes(node, n) ==
  IF n = 0 THEN 0
  ELSE cellBytes(node, n - 1) + 4 + Len(getKey(node, n - 1))
                                  + Len(getVal(node, n - 1))

trueBytes(node) == HEADER + 10 * nkeys(node) + cellBytes(node, nkeys(node))

\* C14: every call nodeSplit3 makes on a node built by treeInsert passes
\* every assertion and returns 1, 2 or 3 parts, each with at least one entry
\* and nbytes <= BTREE_PAGE_SIZE.
C14_SplitSucceeds ==
  \A i \in EventsOf("split") :
    /\ log[i].live
    /\ log[i].page \in 1..3
    /\ status = "ok" =>
         \A k \in 1..log[i].page :
           /\ nkeys(partOf(i, k)) >= 1
           /\ nbytes(partOf(i, k)) <= BTREE_PAGE_SIZE
           /\ trueBytes(partOf(i, k)) <= BTREE_PAGE_SIZE

\* an Insert split a leaf three ways and a node two ways
C14_Witness ==
  /\ status = "ok"
  /\ \E i \in EventsOf("split") :
       log[i].page = 3 /\ btype(log[i].node) = BNODE_LEAF
  /\ \E i \in EventsOf("split") :
       log[i].page = 2 /\ btype(log[i].node) = BNODE_NODE

\* C15: the entries (pointer, key, value) of the parts nodeSplit3 returns,
\* taken in order, are the entries of its input in the same order, and each
\* part has the kind of the input.
C15_SplitConserves ==
  status = "ok" =>
    \A i \in EventsOf("split") :
      /\ partTriples(i, log[i].page) = triplesOf(log[i].node)
      /\ \A k \in 1..log[i].page : btype(partOf(i, k)) = btype(log[i].node)

\* an Insert split an INNER node of six entries or more in two
C15_Witness ==
  /\ status = "ok"
  /\ \E i \in EventsOf("split") :
       /\ log[i].page = 2
       /\ btype(log[i].node) = BNODE_NODE
       /\ nkeys(log[i].node) >= 6

-----------------------------------------------------------------------------
(* The descent *)

\* the nodes a descent for key visits from page p on
RECURSIVE pathFrom(_, _)
pathFrom(p, key) ==
  IF p \notin Live THEN {}
  ELSE IF btype(pages[p]) = BNODE_NODE
          /\ nodeLookupLE(pages[p], key) < nkeys(pages[p])
    THEN {pages[p]}
           \cup pathFrom(getPtr(pages[p], nodeLookupLE(pages[p], key)), key)
  ELSE {pages[p]}

\* the nodes Insert(key, _) and Get(key) visit on the current tree
Visited(key) == IF root = 0 THEN {} ELSE pathFrom(root, key)

\* the indexes of the entries of node whose key is <= key
leIndexes(node, key) ==
  {i \in 0..(nkeys(node) - 1) : bytesCompare(getKey(node, i), key) <= 0}

\* nodeLookupLE returns the greatest index whose key is <= key
FindsGreatestLE(node, key) ==
  /\ nodeLookupLE(node, key) \in leIndexes(node, key)
  /\ \A j \in leIndexes(node, key) : j <= nodeLookupLE(node, key)

\* C16: on every node a descent visits, nodeLookupLE(node, key) is the
\* greatest index i with key(node, i) <= key, and lies in [0, nkeys).
C16_LookupGreatestLE ==
  \A k \in Keys : \A node \in Visited(k) : FindsGreatestLE(node, k)

\* (the same for the keys that are not empty)
C16_LookupGreatestLENonEmptyKeys ==
  \A k \in Keys \ {<<>>} : \A node \in Visited(k) : FindsGreatestLE(node, k)

\* (the result lies in [0, nkeys) for every key)
C16_LookupInRange ==
  \A k \in Keys : \A node \in Visited(k) :
    nodeLookupLE(node, k) < nkeys(node)

-----------------------------------------------------------------------------
(* Separators *)

\* the keys stored in the leaves under page p
subtreeKeys(p) ==
  {scanFrom(pages, p)[j][1] : j \in 1..Len(scanFrom(pages, p))}

\* entry i of the INNER node: its key is key 0 of the child, and bounds the
\* keys under the child from below; the key of entry i + 1 bounds them
\* strictly from above
Separates(node, i) ==
  /\ getPtr(node, i) \in Live
  /\ bytesEqual(getKey(node, i), getKey(pages[getPtr(node, i)], 0))
  /\ \A k \in subtreeKeys(getPtr(node, i)) :
       /\ bytesCompare(getKey(node, i), k) <= 0
       /\ i + 1 < nkeys(node) => bytesCompare(k, getKey(node, i + 1)) < 0

\* C17: for every INNER node of the tree and every entry i, key(i) is key 0
\* of the child page ptr i, every key under that child is >= key(i) and,
\* when entry i + 1 exists, < key(i + 1).
C17_Separator ==
  status # "panic" =>
    \A node \in Inners : \A i \in 0..(nkeys(node) - 1) : Separates(node, i)

\* (the same as long as the empty key has not been inserted)
C17_SeparatorNoEmptyKey ==
  (status # "panic" /\ <<>> \notin DOMAIN shadow) =>
    \A node \in Inners : \A i \in 0..(nkeys(node) - 1) : Separates(node, i)

-----------------------------------------------------------------------------
(* Height *)

\* the depths at which the leaves under page p lie, p being at depth d
RECURSIVE leafDepthsFrom(_, _)
leafDepthsFrom(p, d) ==
  IF p \notin Live THEN {}
  ELSE IF btype(pages[p]) = BNODE_LEAF THEN {d}
  ELSE UNION {leafDepthsFrom(getPtr(pages[p], i), d + 1) :
                i \in 0..(nkeys(pages[p]) - 1)}

LeafDepths == IF root = 0 THEN {} ELSE leafDepthsFrom(root, 1)

Balanced == Cardinality(LeafDepths) <= 1

\* the number of levels of the tree (0: empty)
Height ==
  IF LeafDepths = {} THEN 0
  ELSE CHOOSE d \in LeafDepths : \A e \in LeafDepths : e <= d

\* the position in the log of the last call of nodeSplit3: the one Insert
\* makes on the rebuilt root
rootSplit ==
  CHOOSE i \in EventsOf("split") : \A j \in EventsOf("split") : j <= i

\* the number of parts the rebuilt root was split into
rootParts == log[rootSplit].page

\* the root is an INNER node with one entry per part, entry k naming the
\* page of part k with the first key of part k
RootLinksParts ==
  /\ root \in Live
  /\ btype(pages[root]) = BNODE_NODE
  /\ nkeys(pages[root]) = rootParts
  /\ \A k \in 1..rootParts :
       /\ getPtr(pages[root], k - 1) = log[nthNewAfter(rootSplit, k)].page
       /\ bytesEqual(getKey(pages[root], k - 1),
                     getKey(partOf(rootSplit, k), 0))

\* one Insert on a tree that is not empty: the height grows by one when the
\* rebuilt root was split and stays otherwise
GrowsByRootSplit ==
  /\ (status' = "ok" /\ root # 0) =>
       /\ Height' = Height + (IF rootParts' > 1 THEN 1 ELSE 0)
       /\ rootParts' > 1 => RootLinksParts'
  /\ status' = "err" => Height' = Height

\* C18: all leaves lie at the same depth; an Insert makes the tree one level
\* higher when the rebuilt root splits into n > 1 parts, the new root being an
\* INNER node whose n entries name the parts' pages with the parts' first
\* keys in order, and leaves the height as it was when the root does not
\* split.
C18_BalancedGrowth == []Balanced /\ [][GrowsByRootSplit]_vars

\* an Insert split the root of a tree of two levels and made it three
C18_Witness ==
  /\ status = "ok"
  /\ EventsOf("split") # {}
  /\ rootParts > 1
  /\ RootLinksParts
  /\ Height = 3
  /\ Balanced

\* C19: the node treeInsert builds at every recursion level has
\* nbytes <= 2 * BTREE_PAGE_SIZE, so its size and offsets fit in 16 bits:
\* the uint16 size equals the size counted in unbounded integers.
C19_ScratchBound ==
  \A i \in EventsOf("split") :
    /\ trueBytes(log[i].node) <= 2 * BTREE_PAGE_SIZE
    /\ log[i].size = trueBytes(log[i].node)

\* an Insert split a leaf three ways, and the INNER node built above it, with
\* three links in place of one, is larger than a page
C19_Witness ==
  /\ status = "ok"
  /\ \E i, j \in EventsOf("split") :
       /\ i < j
       /\ log[i].page = 3
       /\ btype(log[j].node) = BNODE_NODE
       /\ log[j].size > BTREE_PAGE_SIZE

-----------------------------------------------------------------------------
(* The merge decision *)

\* the node rebuilt without entry idx
nodeDelete(old, idx) ==
  nodeAppendRange(
    nodeAppendRange(setHeader(btype(old), nkeys(old) - 1), old, 0, 0, idx),
    old, idx, idx + 1, nkeys(old) - (idx + 1))

\* the node holding the entries of left, then the entries of right
nodeMerge(left, right) ==
  nodeAppendRange(
    nodeAppendRange(setHeader(btype(left), nkeys(left) + nkeys(right)),
                    left, 0, 0, nkeys(left)),
    right, nkeys(left), 0, nkeys(right))

\* the kid of entry idx as an update may leave it: unchanged in size, or
\* without its last entry
UpdatedKids(node, idx) ==
  {pages[getPtr(node, idx)],
   nodeDelete(pages[getPtr(node, idx)], nkeys(pages[getPtr(node, idx)]) - 1)}

\* sibling.nbytes + updated.nbytes - HEADER <= BTREE_PAGE_SIZE
FitsWith(sibling, updated) ==
  nbytes(sibling) + nbytes(updated) - HEADER <= BTREE_PAGE_SIZE

LeftFits(node, idx, updated) ==
  idx > 0 /\ FitsWith(pages[getPtr(node, idx - 1)], updated)

RightFits(node, idx, updated) ==
  idx + 1 < nkeys(node) /\ FitsWith(pages[getPtr(node, idx + 1)], updated)

\* the node the merge shouldMerge chose would build
MergedNode(m, updated) ==
  IF m.dir = -1 THEN nodeMerge(m.sibling, updated)
  ELSE nodeMerge(updated, m.sibling)

\* the decision m for (node, idx, updated) is the one stated, and the merge
\* chosen fits in a page
DecidesAsStated(m, node, idx, updated) ==
  /\ m.dir =
       IF nbytes(updated) > BTREE_PAGE_SIZE \div 4 THEN 0
       ELSE IF LeftFits(node, idx, updated) THEN -1
       ELSE IF RightFits(node, idx, updated) THEN 1
       ELSE 0
  /\ m.dir = -1 => m.sibling = pages[getPtr(node, idx - 1)]
  /\ m.dir = 1 => m.sibling = pages[getPtr(node, idx + 1)]
  /\ m.dir # 0 =>
       /\ nbytes(MergedNode(m, updated)) <= BTREE_PAGE_SIZE
       /\ trueBytes(MergedNode(m, updated)) <= BTREE_PAGE_SIZE

\* C20: shouldMerge(node, idx, updated) returns no merge when
\* updated.nbytes() > BTREE_PAGE_SIZE / 4; otherwise the left sibling when
\* idx > 0 and left.nbytes + updated.nbytes - HEADER <= BTREE_PAGE_SIZE,
\* otherwise the right sibling when idx + 1 < nkeys and the same test holds,
\* otherwise no merge; the node formed of the entries of the two nodes it
\* chooses has nbytes <= BTREE_PAGE_SIZE.
C20_MergeDecision ==
  status # "panic" =>
    \A node \in Inners : \A idx \in 0..(nkeys(node) - 1) :
      \A updated \in UpdatedKids(node, idx) :
        DecidesAsStated(shouldMerge(Current, node, idx, updated),
                        node, idx, updated)

\* a tree on which shouldMerge chooses the left sibling for one kid, the
\* right sibling for another and refuses a third for its size
C20_Witness ==
  /\ status = "ok"
  /\ \E node \in Inners : \E idx \in 0..(nkeys(node) - 1) :
       \E updated \in UpdatedKids(node, idx) :
         shouldMerge(Current, node, idx, updated).dir = -1
  /\ \E node \in Inners : \E idx \in 0..(nkeys(node) - 1) :
       \E updated \in UpdatedKids(node, idx) :
         shouldMerge(Current, node, idx, updated).dir = 1
  /\ \E node \in Inners : \E idx \in 0..(nkeys(node) - 1) :
       \E updated \in UpdatedKids(node, idx) :
         /\ nbytes(updated) > BTREE_PAGE_SIZE \div 4
         /\ shouldMerge(Current, node, idx, updated).dir = 0

====
